---------------------------- MODULE Spec2Model ----------------------------
(***************************************************************************)
(* Patient Management System (FastAPI), src/main.py.                       *)
(*                                                                         *)
(* The persisted document (patients.json) is the only state the service    *)
(* keeps.  Every handler loads the whole document, checks / mutates the    *)
(* loaded dict and, for the mutating handlers, writes the whole dict back. *)
(*                                                                         *)
(* Modelling conventions                                                   *)
(*   - patient ids are strings in the code; here they are 1..NumIds.       *)
(*   - a Python dict is insertion ordered (and json keeps that order), so  *)
(*     the document is a sequence of entries [key, val].                   *)
(*   - height and weight are floats in the code; here they are whole       *)
(*     centimetres / kilograms and bmi is kept in hundredths (an integer), *)
(*     computed with exact arithmetic and Python's round-half-even.        *)
(*   - Spec: requests are served one at a time (each action is a whole     *)
(*     handler).  ConcSpec: handlers run in worker threads and are split   *)
(*     at the point between load_data() and save_data().                   *)
(***************************************************************************)
EXTENDS Integers, Sequences, FiniteSets, TLC

VARIABLES
    file,      \* patients.json: [exists, content]
    req,       \* the request being served (Spec)
    resp,      \* the response to it, until it is delivered (Spec)
    created,   \* history: id -> payload of the successful Create not yet followed by Update/Delete of id
    deleted,   \* history: ids deleted and not created again since
    pc,        \* ConcSpec: per worker thread, "idle" | "loaded" | "done"
    local,     \* ConcSpec: per worker thread, the dict `data` it loaded
    treq,      \* ConcSpec: per worker thread, its request
    tresp,     \* ConcSpec: per worker thread, its response
    loadedAt,  \* ConcSpec history: per worker thread, the number of saves done when it loaded
    saves      \* ConcSpec history: [count, last], the number of saves done and the thread of the last one

vars == <<file, req, resp, created, deleted, pc, local, treq, tresp, loadedAt, saves>>

seqVars == <<req, resp, created, deleted>>
concVars == <<pc, local, treq, tresp, loadedAt, saves>>

---------------------------------------------------------------------------
(* Reading a mapping kept as a sequence of entries, for the properties *)

HasKey(d, k) == \E i \in 1..Len(d) : d[i].key = k

ValOf(d, k) == d[CHOOSE i \in 1..Len(d) : d[i].key = k].val

PosOf(d, k) == CHOOSE i \in 1..Len(d) : d[i].key = k

---------------------------------------------------------------------------
(* Bounds *)

NumIds == 2

PatientIds == 1..NumIds
\* two worker threads: the two handlers that run at the same time
Threads == {1, 2}

---------------------------------------------------------------------------
(* Request bodies: the non-id fields of a payload, as received *)

Body(n, c, a, g, h, w) ==
    [name |-> n, city |-> c, age |-> a, gender |-> g, height |-> h, weight |-> w]

\* accepted by the Patient model
GoodBodies ==
    { Body("Ann", "Pune", 30, "F", 400, 2),      \* bmi 0.125 -> 0.12 (tie, half-even)
      Body("Bob", "Delhi", 45, "M", 200, 74),    \* bmi 18.50
      Body("Cy", "Goa", 1, "O", 100, 25),        \* bmi 25.00
      Body("Dee", "Agra", 60, "F", 200, 120),    \* bmi 30.00
      Body("", "", 25, "", 170, 86) }            \* bmi 29.757.. -> 29.76, empty strings

\* rejected by the Patient model
BadBodies ==
    { Body("Eve", "Kochi", 0, "F", 170, 65),
      Body("Eve", "Kochi", 25, "F", 0, 65),
      Body("Eve", "Kochi", 25, "F", 170, 0) }

Bodies == GoodBodies \cup BadBodies

WithId(id, b) ==
    [id |-> id, name |-> b.name, city |-> b.city, age |-> b.age,
     gender |-> b.gender, height |-> b.height, weight |-> b.weight]

Payloads == { WithId(id, b) : id \in PatientIds, b \in Bodies }

SortByValues == {"height", "weight", "bmi", "age"}
OrderValues == {"asc", "desc", "up"}

---------------------------------------------------------------------------
(* class Patient *)

\* Validates with ge=0 in place of gt=0
Validates_ge(p) == p.age >= 0 /\ p.height >= 0 /\ p.weight >= 0

\* Field(..., gt=0) on age, height and weight; name, city, gender are any str
Validates(p) == p.age > 0 /\ p.height > 0 /\ p.weight > 0

\* Python round(x, 2) of the exact quotient num/den given in hundredths:
\* nearest integer, ties to even
RoundHalfEven(num, den) ==
    LET q == num \div den
        r == num % den
    IN  IF 2 * r < den THEN q
        ELSE IF 2 * r > den THEN q + 1
        ELSE IF q % 2 = 0 THEN q ELSE q + 1

\* bmi in hundredths: round(weight / ((height / 100) ** 2), 2) * 100
bmi(p) == RoundHalfEven(p.weight * 1000000, p.height * p.height)

ObeseMin == 3000
OverweightMin == 2500
NormalMin == 1850

\* verdict with > in place of >=
verdict_strict(p) ==
    IF bmi(p) > ObeseMin THEN "Obese"
    ELSE IF bmi(p) > OverweightMin THEN "Overweight"
    ELSE IF bmi(p) > NormalMin THEN "Normal"
    ELSE "Underweight"

verdict(p) ==
    IF bmi(p) >= ObeseMin THEN "Obese"
    ELSE IF bmi(p) >= OverweightMin THEN "Overweight"
    ELSE IF bmi(p) >= NormalMin THEN "Normal"
    ELSE "Underweight"

\* Patient(id=pid, **info): the declared fields are taken, extra keys
\* (pydantic's default extra="ignore") are dropped
Patient(pid, info) == WithId(pid, info)

\* model_dump(): declared fields and the computed fields
model_dump(p) ==
    [id |-> p.id, name |-> p.name, city |-> p.city, age |-> p.age,
     gender |-> p.gender, height |-> p.height, weight |-> p.weight,
     bmi |-> bmi(p), verdict |-> verdict(p)]

\* model_dump_exclude_id excluding nothing
model_dump_with_id(p) ==
    [id |-> p.id, name |-> p.name, city |-> p.city, age |-> p.age,
     gender |-> p.gender, height |-> p.height, weight |-> p.weight,
     bmi |-> bmi(p), verdict |-> verdict(p)]

\* model_dump(exclude={"id"})
model_dump_exclude_id(p) ==
    [name |-> p.name, city |-> p.city, age |-> p.age,
     gender |-> p.gender, height |-> p.height, weight |-> p.weight,
     bmi |-> bmi(p), verdict |-> verdict(p)]

---------------------------------------------------------------------------
(* dict operations on the loaded document *)

Keys(data) == { data[i].key : i \in 1..Len(data) }

IndexOf(data, k) == CHOOSE i \in 1..Len(data) : data[i].key = k

Lookup(data, k) == data[IndexOf(data, k)].val

\* data[k] = v : an existing key keeps its position, a new key goes last
DictSet(data, k, v) ==
    IF k \in Keys(data)
    THEN [data EXCEPT ![IndexOf(data, k)] = [key |-> k, val |-> v]]
    ELSE Append(data, [key |-> k, val |-> v])

\* DictDel removing the last entry (data.popitem()) instead of the key
DictDel_popitem(data, k) == SubSeq(data, 1, Len(data) - 1)

\* del data[k]
DictDel(data, k) == SelectSeq(data, LAMBDA e : e.key # k)

---------------------------------------------------------------------------
(* load_data / save_data *)

NoFile == [exists |-> FALSE, content |-> <<>>]

load_data == IF file.exists THEN file.content ELSE <<>>

save_data(data) == [exists |-> TRUE, content |-> data]

---------------------------------------------------------------------------
(* sorted(patients, key=lambda x: getattr(x, sort_by), reverse=...) *)

getattr(p, field) ==
    IF field = "height" THEN p.height
    ELSE IF field = "weight" THEN p.weight
    ELSE bmi(p)

Reverse(s) == [i \in 1..Len(s) |-> s[Len(s) + 1 - i]]

\* x goes after every element whose key is <= its own (stable)
InsertByKey(s, x, field) ==
    LET n == Cardinality({ i \in 1..Len(s) : getattr(s[i], field) <= getattr(x, field) })
    IN  SubSeq(s, 1, n) \o <<x>> \o SubSeq(s, n + 1, Len(s))

RECURSIVE StableSort(_, _)
StableSort(s, field) ==
    IF s = <<>> THEN <<>>
    ELSE InsertByKey(StableSort(SubSeq(s, 1, Len(s) - 1), field), s[Len(s)], field)

\* sorted reversing only the result of the ascending sort
sorted_reversed_after(s, field, reverse) ==
    IF reverse THEN Reverse(StableSort(s, field))
    ELSE StableSort(s, field)

\* a stable ascending sort; with reverse=True the list is reversed before
\* and after it, which keeps equal keys in their original order
sorted(s, field, reverse) ==
    IF reverse THEN Reverse(StableSort(Reverse(s), field))
    ELSE StableSort(s, field)

---------------------------------------------------------------------------
(* Requests and responses *)

NoPayload == WithId(0, Body("", "", 0, "", 0, 0))

NoReq == [op |-> "none", patient_id |-> 0, payload |-> NoPayload, sort_by |-> "", order |-> ""]

Req(op, pid, payload, sort_by, order) ==
    [op |-> op, patient_id |-> pid, payload |-> payload, sort_by |-> sort_by, order |-> order]

NoResp == [status |-> 0, detail |-> "", body |-> <<>>]

Resp(status, detail, body) == [status |-> status, detail |-> detail, body |-> body]

\* HTTPException(status_code=404, detail="Patient not found")
NotFound == Resp(404, "Patient not found", <<>>)

\* the request body does not validate as a Patient: the handler is not entered
Unprocessable == Resp(422, "validation error", <<>>)

Idle == req.op = "none"

---------------------------------------------------------------------------
(* Handlers, one request at a time *)

\* GET /view
view_patients ==
    /\ Idle
    /\ req' = Req("view", 0, NoPayload, "", "")
    /\ resp' = Resp(200, "", load_data)
    /\ UNCHANGED <<file, created, deleted>>
    /\ UNCHANGED concVars

\* get_result answering with the stored dict instead of the rebuilt Patient
get_result_stored(data, patient_id) ==
    IF patient_id \notin Keys(data) THEN NotFound
    ELSE Resp(200, "", Lookup(data, patient_id))

\* what get_patient answers for patient_id on the dict data
get_result(data, patient_id) ==
    IF patient_id \notin Keys(data) THEN NotFound
    ELSE LET patient == Patient(patient_id, Lookup(data, patient_id))
         IN  IF Validates(patient) THEN Resp(200, "", model_dump(patient))
             ELSE Resp(500, "validation error", <<>>)

\* GET /patient/{patient_id}
get_patient(patient_id) ==
    /\ Idle
    /\ req' = Req("get", patient_id, NoPayload, "", "")
    /\ resp' = get_result(load_data, patient_id)
    /\ UNCHANGED <<file, created, deleted>>
    /\ UNCHANGED concVars

\* a handler's outcome: its response, whether it reached save_data, and the dict it saved
Raised(response) == [resp |-> response, saved |-> FALSE, data |-> <<>>]
Saved(response, data) == [resp |-> response, saved |-> TRUE, data |-> data]

\* create_result without the check of patient.id
create_result_unchecked(data, patient) ==
    Saved(Resp(201, "Patient created successfully", patient.id),
          DictSet(data, patient.id, model_dump_exclude_id(patient)))

\* create_patient on the loaded dict data
create_result(data, patient) ==
    IF patient.id \in Keys(data)
    THEN Raised(Resp(400, "Patient with this ID already exists", <<>>))
    ELSE Saved(Resp(201, "Patient created successfully", patient.id),
               DictSet(data, patient.id, model_dump_exclude_id(patient)))

\* POST /create
create_patient(patient) ==
    /\ Idle
    /\ req' = Req("create", 0, patient, "", "")
    /\ IF ~Validates(patient)
       THEN /\ resp' = Unprocessable
            /\ UNCHANGED <<file, created, deleted>>
       ELSE LET out == create_result(load_data, patient)
            IN  /\ resp' = out.resp
                /\ IF out.saved
                   THEN /\ file' = save_data(out.data)
                        /\ created' = [created EXCEPT ![patient.id] = patient]
                        /\ deleted' = deleted \ {patient.id}
                   ELSE UNCHANGED <<file, created, deleted>>
    /\ UNCHANGED concVars

\* what sort_patients answers on the dict data
sort_result(data, sort_by, order) ==
    IF sort_by \notin {"height", "weight", "bmi"}
    THEN Resp(400, "sort_by must be [height, weight, bmi]", <<>>)
    ELSE IF order \notin {"asc", "desc"}
    THEN Resp(400, "order must be asc or desc", <<>>)
    ELSE LET patients == [i \in 1..Len(data) |-> Patient(data[i].key, data[i].val)]
             sorted_patients == sorted(patients, sort_by, order = "desc")
         IN  IF \E i \in 1..Len(patients) : ~Validates(patients[i])
             THEN Resp(500, "validation error", <<>>)
             ELSE Resp(200, "", [i \in 1..Len(sorted_patients) |-> model_dump(sorted_patients[i])])

\* GET /sort
sort_patients(sort_by, order) ==
    /\ Idle
    /\ req' = Req("sort", 0, NoPayload, sort_by, order)
    /\ resp' = sort_result(load_data, sort_by, order)
    /\ UNCHANGED <<file, created, deleted>>
    /\ UNCHANGED concVars

\* update_result without the check of patient_id
update_result_upsert(data, patient_id, updated_patient) ==
    Saved(Resp(200, "Patient updated successfully", <<>>),
          DictSet(data, patient_id, model_dump_exclude_id(updated_patient)))

\* update_result keyed by the payload's id instead of the path's
update_result_payload_id(data, patient_id, updated_patient) ==
    IF patient_id \notin Keys(data)
    THEN Raised(NotFound)
    ELSE Saved(Resp(200, "Patient updated successfully", <<>>),
               DictSet(data, updated_patient.id, model_dump_exclude_id(updated_patient)))

\* update_patient on the loaded dict data
update_result(data, patient_id, updated_patient) ==
    IF patient_id \notin Keys(data)
    THEN Raised(NotFound)
    ELSE Saved(Resp(200, "Patient updated successfully", <<>>),
               DictSet(data, patient_id, model_dump_exclude_id(updated_patient)))

\* PUT /update/{patient_id}
update_patient(patient_id, updated_patient) ==
    /\ Idle
    /\ req' = Req("update", patient_id, updated_patient, "", "")
    /\ IF ~Validates(updated_patient)
       THEN /\ resp' = Unprocessable
            /\ UNCHANGED <<file, created, deleted>>
       ELSE LET out == update_result(load_data, patient_id, updated_patient)
            IN  /\ resp' = out.resp
                /\ IF out.saved
                   THEN /\ file' = save_data(out.data)
                        /\ created' = [created EXCEPT ![patient_id] = NoPayload]
                        /\ UNCHANGED deleted
                   ELSE UNCHANGED <<file, created, deleted>>
    /\ UNCHANGED concVars

\* delete_patient on the loaded dict data
delete_result(data, patient_id) ==
    IF patient_id \notin Keys(data)
    THEN Raised(NotFound)
    ELSE Saved(Resp(200, "Patient deleted successfully", <<>>), DictDel(data, patient_id))

\* DELETE /delete/{patient_id}
delete_patient(patient_id) ==
    /\ Idle
    /\ req' = Req("delete", patient_id, NoPayload, "", "")
    /\ LET out == delete_result(load_data, patient_id)
       IN  /\ resp' = out.resp
           /\ IF out.saved
              THEN /\ file' = save_data(out.data)
                   /\ created' = [created EXCEPT ![patient_id] = NoPayload]
                   /\ deleted' = deleted \cup {patient_id}
              ELSE UNCHANGED <<file, created, deleted>>
    /\ UNCHANGED concVars

\* the response is returned to the client; the next request can be served
Return ==
    /\ ~Idle
    /\ req' = NoReq
    /\ resp' = NoResp
    /\ UNCHANGED <<file, created, deleted>>
    /\ UNCHANGED concVars

---------------------------------------------------------------------------

Init ==
    /\ file = NoFile
    /\ req = NoReq
    /\ resp = NoResp
    /\ created = [id \in PatientIds |-> NoPayload]
    /\ deleted = {}
    /\ pc = [t \in Threads |-> "idle"]
    /\ local = [t \in Threads |-> <<>>]
    /\ treq = [t \in Threads |-> NoReq]
    /\ tresp = [t \in Threads |-> NoResp]
    /\ loadedAt = [t \in Threads |-> 0]
    /\ saves = [count |-> 0, last |-> 0]

Next ==
    \/ view_patients
    \/ \E patient_id \in PatientIds : get_patient(patient_id)
    \/ \E patient \in Payloads : create_patient(patient)
    \/ \E sort_by \in SortByValues, order \in OrderValues : sort_patients(sort_by, order)
    \/ \E patient_id \in PatientIds, updated_patient \in Payloads :
          update_patient(patient_id, updated_patient)
    \/ \E patient_id \in PatientIds : delete_patient(patient_id)
    \/ Return

Spec == Init /\ [][Next]_vars

---------------------------------------------------------------------------
(* Handlers in worker threads.  FastAPI runs a `def` endpoint in a thread  *)
(* pool, so handlers of different requests interleave; the code takes no   *)
(* lock.  A handler is split where it can be preempted with an effect:     *)
(* after data = load_data() and before save_data(data).  Two requests are  *)
(* served, one per thread, on a document left by earlier requests.         *)

\* two bodies are enough to tell an update from the entry it replaces
ConcBodies ==
    { Body("Bob", "Delhi", 45, "M", 200, 74),
      Body("Dee", "Agra", 60, "F", 200, 120) }

\* mutating requests whose body has validated
ConcRequests ==
    { Req("create", 0, WithId(id, b), "", "") : id \in PatientIds, b \in ConcBodies }
    \cup { Req("update", id, WithId(id, b), "", "") : id \in PatientIds, b \in ConcBodies }
    \cup { Req("delete", id, NoPayload, "", "") : id \in PatientIds }

\* data = load_data(), first statement of create_patient, update_patient, delete_patient
handler_load(t, r) ==
    /\ pc[t] = "idle"
    /\ r.op \in {"update", "create"} => Validates(r.payload)
    /\ treq' = [treq EXCEPT ![t] = r]
    /\ local' = [local EXCEPT ![t] = load_data]
    /\ loadedAt' = [loadedAt EXCEPT ![t] = saves.count]
    /\ pc' = [pc EXCEPT ![t] = "loaded"]
    /\ UNCHANGED <<file, tresp, saves>>
    /\ UNCHANGED seqVars

\* dict.update: the entries of new written over those of old
DictUpdate(old, new) ==
    LET kept == [i \in 1..Len(old) |->
                    IF HasKey(new, old[i].key)
                    THEN [key |-> old[i].key, val |-> ValOf(new, old[i].key)]
                    ELSE old[i]]
    IN  kept \o SelectSeq(new, LAMBDA e : ~HasKey(old, e.key))

\* handler_finish writing its entries into the current document instead of
\* replacing the document
handler_finish_merge(t, out) ==
    /\ pc[t] = "loaded"
    /\ tresp' = [tresp EXCEPT ![t] = out.resp]
    /\ pc' = [pc EXCEPT ![t] = "done"]
    /\ IF out.saved
       THEN /\ file' = save_data(DictUpdate(load_data, out.data))
            /\ saves' = [count |-> saves.count + 1, last |-> t]
       ELSE UNCHANGED <<file, saves>>
    /\ UNCHANGED <<local, treq, loadedAt>>
    /\ UNCHANGED seqVars

\* the rest of a handler: it raises, or it runs save_data(data) and returns
handler_finish(t, out) ==
    /\ pc[t] = "loaded"
    /\ tresp' = [tresp EXCEPT ![t] = out.resp]
    /\ pc' = [pc EXCEPT ![t] = "done"]
    /\ IF out.saved
       THEN /\ file' = save_data(out.data)
            /\ saves' = [count |-> saves.count + 1, last |-> t]
       ELSE UNCHANGED <<file, saves>>
    /\ UNCHANGED <<local, treq, loadedAt>>
    /\ UNCHANGED seqVars

\* create_patient from its check of patient.id to its return
create_patient_finish(t) ==
    /\ treq[t].op = "create"
    /\ handler_finish(t, create_result(local[t], treq[t].payload))

\* update_patient from its check of patient_id to its return
update_patient_finish(t) ==
    /\ treq[t].op = "update"
    /\ handler_finish(t, update_result(local[t], treq[t].patient_id, treq[t].payload))

\* delete_patient from its check of patient_id to its return
delete_patient_finish(t) ==
    /\ treq[t].op = "delete"
    /\ handler_finish(t, delete_result(local[t], treq[t].patient_id))

\* the documents requests served one after the other leave behind: any
\* mapping from distinct ids to dumped patients, in any order
RECURSIVE StoredDocs(_)
StoredDocs(n) ==
    IF n = 0 THEN {<<>>}
    ELSE LET shorter == StoredDocs(n - 1)
         IN  shorter \cup
             { Append(d, [key |-> id, val |-> model_dump_exclude_id(WithId(id, b))]) :
                 d \in {x \in shorter : Len(x) = n - 1}, id \in PatientIds, b \in ConcBodies }

ConcInit ==
    /\ file \in {NoFile} \cup
                 { save_data(d) : d \in {x \in StoredDocs(NumIds) :
                                          \A i, j \in 1..Len(x) : x[i].key = x[j].key => i = j} }
    /\ req = NoReq
    /\ resp = NoResp
    /\ created = [id \in PatientIds |-> NoPayload]
    /\ deleted = {}
    /\ pc = [t \in Threads |-> "idle"]
    /\ local = [t \in Threads |-> <<>>]
    /\ treq = [t \in Threads |-> NoReq]
    /\ tresp = [t \in Threads |-> NoResp]
    /\ loadedAt = [t \in Threads |-> 0]
    /\ saves = [count |-> 0, last |-> 0]

ConcNext ==
    \/ \E t \in Threads, r \in ConcRequests : handler_load(t, r)
    \/ \E t \in Threads : create_patient_finish(t)
    \/ \E t \in Threads : update_patient_finish(t)
    \/ \E t \in Threads : delete_patient_finish(t)

ConcSpec == ConcInit /\ [][ConcNext]_vars

---------------------------------------------------------------------------
(* Properties *)

\* the persisted mapping, in iteration order
Doc == file.content

\* a handler step of Spec serving a request with operation op
Serves(op) == Idle /\ req'.op = op

\* the record a read of id p must give for the submitted fields r
FullRecord(p, r) ==
    [id |-> p, name |-> r.name, city |-> r.city, age |-> r.age, gender |-> r.gender,
     height |-> r.height, weight |-> r.weight, bmi |-> bmi(r), verdict |-> verdict(r)]

\* C1: a Create with a valid payload whose id is already a key of the store
\* answers 400 (conflict) and leaves the persisted store as it was.
C1_CreateConflict ==
    [][ (Serves("create") /\ Validates(req'.payload) /\ HasKey(Doc, req'.payload.id))
        => (resp'.status = 400 /\ file' = file) ]_vars

C1_Witness ==
    /\ req.op = "create"
    /\ resp.status = 400
    /\ HasKey(Doc, req.payload.id)
    /\ ValOf(Doc, req.payload.id).name # req.payload.name

\* C2: Get, Update (with a valid payload) and Delete of an id that is not a key
\* of the store answer 404 (not found) and leave the persisted store as it was;
\* Update inserts no key.
C2_NotFound ==
    [][ \A op \in {"get", "update", "delete"} :
          (Serves(op) /\ (op = "update" => Validates(req'.payload)) /\ ~HasKey(Doc, req'.patient_id))
          => (resp'.status = 404 /\ file' = file /\ ~HasKey(Doc', req'.patient_id)) ]_vars

C2_Witness ==
    /\ req.op = "update"
    /\ Validates(req.payload)
    /\ resp.status = 404
    /\ ~HasKey(Doc, req.patient_id)
    /\ Len(Doc) > 0

\* C3: while the last successful mutation of id p is a Create with payload r
\* (operations on other ids and reads may have followed), Get(p) answers 200
\* with id p, the fields of r, and bmi and verdict derived from r.
C3_CreateThenGet ==
    (req.op = "get" /\ created[req.patient_id] # NoPayload)
    => (resp.status = 200 /\ resp.body = FullRecord(req.patient_id, created[req.patient_id]))

C3_Witness ==
    /\ req.op = "get"
    /\ created[req.patient_id] # NoPayload
    /\ resp.status = 200
    /\ \E q \in PatientIds : q # req.patient_id /\ HasKey(Doc, q) /\ created[q] = NoPayload

StoredFields == {"name", "city", "age", "gender", "height", "weight"}

C5_UpdateReplaces ==
    /\ [][ (Serves("update") /\ resp'.status = 200)
           => LET p == req'.patient_id
                  r == req'.payload
              IN  /\ HasKey(Doc, p)
                  /\ Len(Doc') = Len(Doc)
                  /\ \A i \in 1..Len(Doc) :
                        /\ Doc'[i].key = Doc[i].key
                        /\ Doc[i].key # p => Doc'[i] = Doc[i]
                        /\ Doc[i].key = p =>
                              /\ Doc'[i].val.name = r.name
                              /\ Doc'[i].val.city = r.city
                              /\ Doc'[i].val.age = r.age
                              /\ Doc'[i].val.gender = r.gender
                              /\ Doc'[i].val.height = r.height
                              /\ Doc'[i].val.weight = r.weight
                              /\ Doc'[i].val.bmi = bmi(r)
                              /\ Doc'[i].val.verdict = verdict(r)
                              /\ "id" \notin DOMAIN Doc'[i].val ]_vars
    /\ [](req.op = "get" /\ resp.status = 200 => resp.body.id = req.patient_id)

C5_Witness ==
    /\ req.op = "update"
    /\ resp.status = 200
    /\ req.payload.id # req.patient_id
    /\ Len(Doc) = NumIds
    /\ ValOf(Doc, req.payload.id).name # req.payload.name

\* C6: a successful Delete(p) removes key p and leaves every other entry as it
\* was; from then until a Create with id p succeeds, p is not a key of the
\* store and every Get(p) answers 404.
C6_DeleteThenGet ==
    /\ [][ (Serves("delete") /\ resp'.status = 200)
           => LET p == req'.patient_id
              IN  /\ HasKey(Doc, p)
                  /\ ~HasKey(Doc', p)
                  /\ Len(Doc') = Len(Doc) - 1
                  /\ \A i \in 1..Len(Doc) :
                        Doc[i].key # p =>
                           /\ HasKey(Doc', Doc[i].key)
                           /\ ValOf(Doc', Doc[i].key) = Doc[i].val ]_vars
    /\ [](\A p \in deleted : ~HasKey(Doc, p))
    /\ [](req.op = "get" /\ req.patient_id \in deleted => resp.status = 404)

C6_Witness ==
    /\ req.op = "get"
    /\ req.patient_id \in deleted
    /\ resp.status = 404
    /\ Len(Doc) > 0

\* the value a returned record has in the field sort_by
SortKey(rec, sort_by) ==
    IF sort_by = "height" THEN rec.height
    ELSE IF sort_by = "weight" THEN rec.weight
    ELSE rec.bmi

\* C7: for sort_by in {height, weight, bmi} and order in {asc, desc}, Sort
\* answers 200 with every record of the store exactly once (with derived
\* fields), non-decreasing in the field for asc and non-increasing for desc,
\* records equal in the field keeping the store's iteration order in both
\* orders; any other sort_by or order answers 400.
C7_Sort ==
    req.op = "sort" =>
       IF req.sort_by \in {"height", "weight", "bmi"} /\ req.order \in {"asc", "desc"}
       THEN LET out == resp.body
                k(i) == SortKey(out[i], req.sort_by)
            IN  /\ resp.status = 200
                /\ Len(out) = Len(Doc)
                /\ \A i \in 1..Len(Doc) : \E j \in 1..Len(out) : out[j].id = Doc[i].key
                /\ \A j \in 1..Len(out) :
                      /\ HasKey(Doc, out[j].id)
                      /\ out[j] = FullRecord(out[j].id, ValOf(Doc, out[j].id))
                /\ \A i, j \in 1..Len(out) :
                      i < j =>
                         /\ req.order = "asc" => k(i) <= k(j)
                         /\ req.order = "desc" => k(i) >= k(j)
                         /\ k(i) = k(j) => PosOf(Doc, out[i].id) < PosOf(Doc, out[j].id)
       ELSE resp.status = 400

C7_Witness ==
    /\ req.op = "sort"
    /\ req.sort_by = "height"
    /\ req.order = "desc"
    /\ resp.status = 200
    /\ Len(resp.body) = NumIds
    /\ resp.body[1].height = resp.body[2].height
    /\ resp.body[1].weight # resp.body[2].weight

\* a payload breaks one of the numeric constraints of the Patient model
BreaksNumeric(r) == r.age <= 0 \/ r.height <= 0 \/ r.weight <= 0

\* a payload breaks one of the constraints the data model lists
BreaksListed(r) == r.name = "" \/ r.city = "" \/ BreaksNumeric(r)

\* C8 as claimed: every stored record has a non-empty name, a non-empty city,
\* age > 0, height > 0 and weight > 0, and a Create or Update whose payload
\* breaks one of these is answered with the validation error and leaves the
\* store as it was.
C8_StoredRecordsNonEmpty ==
    /\ [](\A i \in 1..Len(Doc) : ~BreaksListed(Doc[i].val))
    /\ [][ \A op \in {"create", "update"} :
             (Serves(op) /\ BreaksListed(req'.payload))
             => (resp'.status = 422 /\ file' = file) ]_vars

\* C8 amended: every stored record has age > 0, height > 0 and weight > 0
\* (name and city are any strings, the empty one included), and a Create or
\* Update whose payload has age <= 0, height <= 0 or weight <= 0 is answered
\* with the validation error and leaves the store as it was.
C8_StoredRecordsValid ==
    /\ [](\A i \in 1..Len(Doc) : ~BreaksNumeric(Doc[i].val))
    /\ [][ \A op \in {"create", "update"} :
             (Serves(op) /\ BreaksNumeric(req'.payload))
             => (resp'.status = 422 /\ file' = file) ]_vars

C8_Witness ==
    /\ req.op = "update"
    /\ BreaksNumeric(req.payload)
    /\ resp.status = 422
    /\ HasKey(Doc, req.patient_id)
    /\ \E i \in 1..Len(Doc) : Doc[i].val.name = "" /\ Doc[i].val.city = ""

\* b (in hundredths) is weight / (height/100)^2 rounded to 2 decimals:
\* no hundredth is nearer to the exact quotient
IsRoundedBmi(b, height, weight) ==
    LET err == b * height * height - weight * 1000000
    IN  2 * err <= height * height /\ -2 * err <= height * height

IsVerdictOf(v, b) ==
    /\ v = "Obese" <=> b >= 3000
    /\ v = "Overweight" <=> (2500 <= b /\ b < 3000)
    /\ v = "Normal" <=> (1850 <= b /\ b < 2500)
    /\ v = "Underweight" <=> b < 1850

DerivedFromStored(rec) ==
    /\ HasKey(Doc, rec.id)
    /\ rec.height = ValOf(Doc, rec.id).height
    /\ rec.weight = ValOf(Doc, rec.id).weight
    /\ IsRoundedBmi(rec.bmi, rec.height, rec.weight)
    /\ IsVerdictOf(rec.verdict, rec.bmi)

\* C9: every record returned by Get or Sort carries the height and weight
\* currently stored for its id, bmi = weight / (height/100)^2 rounded to 2
\* decimals, and the verdict of that bmi: Obese from 30, Overweight from 25,
\* Normal from 18.5, Underweight below, each boundary in the upper class.
C9_DerivedFields ==
    /\ (req.op = "get" /\ resp.status = 200) => DerivedFromStored(resp.body)
    /\ (req.op = "sort" /\ resp.status = 200) =>
          \A i \in 1..Len(resp.body) : DerivedFromStored(resp.body[i])

C9_Witness ==
    /\ req.op = "sort"
    /\ resp.status = 200
    /\ Len(resp.body) = NumIds
    /\ \A i \in 1..Len(resp.body) : created[resp.body[i].id] = NoPayload
    /\ \E i \in 1..Len(resp.body) : resp.body[i].bmi = 1850 /\ resp.body[i].verdict = "Normal"
    /\ \E i \in 1..Len(resp.body) : resp.body[i].bmi = 2976 /\ resp.body[i].verdict = "Overweight"

\* the id a mutating request is about
Target(r) == IF r.op = "create" THEN r.payload.id ELSE r.patient_id

\* the entry of id p in the mapping d, if any
EntryOf(d, p) == IF HasKey(d, p) THEN <<ValOf(d, p)>> ELSE <<>>

Succeeded(t) == pc[t] = "done" /\ tresp[t].status \in {200, 201}

\* threads t and u both loaded before either saved, both succeeded, on
\* different ids, and u's save is the last one
Raced(t, u) ==
    /\ t # u
    /\ Succeeded(t) /\ Succeeded(u)
    /\ Target(treq[t]) # Target(treq[u])
    /\ loadedAt[t] = loadedAt[u]
    /\ saves.last = u

\* the persisted store shows the change the request r made
Shows(r) ==
    IF r.op = "delete" THEN ~HasKey(Doc, r.patient_id)
    ELSE /\ HasKey(Doc, Target(r))
         /\ FullRecord(Target(r), ValOf(Doc, Target(r))) = FullRecord(Target(r), r.payload)

\* C10: when two mutating handlers on different ids both load before either
\* saves and both succeed, the persisted store after the later save shows the
\* later saver's change on the document it loaded, and the entry of the other
\* handler's id is what it was before that handler ran: its change is lost.
C10_LastSaveWins ==
    \A t, u \in Threads :
        Raced(t, u) =>
           /\ Shows(treq[u])
           /\ EntryOf(Doc, Target(treq[t])) = EntryOf(local[t], Target(treq[t]))
           /\ \A p \in PatientIds \ {Target(treq[u])} : EntryOf(Doc, p) = EntryOf(local[u], p)

C10_Witness ==
    \E t, u \in Threads :
        /\ Raced(t, u)
        /\ treq[t].op = "create" /\ tresp[t].status = 201
        /\ treq[u].op = "create" /\ tresp[u].status = 201
        /\ ~HasKey(Doc, treq[t].payload.id)
        /\ HasKey(Doc, treq[u].payload.id)

=============================================================================
